---- MODULE Spec2Model ----
(***************************************************************************)
(* Model of islands/GlobalSearch.tsx: the state of the GlobalSearch        *)
(* component, its event handlers, its three effects, the pending           *)
(* multipleQueries calls and the pending results-clearing timeout.         *)
(*                                                                         *)
(* One action is one event of the browser's event loop: a handler (or a    *)
(* promise resolution, or a timeout callback), the re-render it causes and *)
(* the effects that re-render runs.                                        *)
(***************************************************************************)
EXTENDS Integers, Sequences, FiniteSets, TLC

VARIABLES
  showModal,          \* useState(false)
  input,              \* useState("")
  results,            \* useState<Results | null>(null)
  kind,               \* useState<SearchKinds>("All")
  page,               \* useState<number>(0)
  totalPages,         \* useState<number>(1)
  symbolKindsToggle,  \* useState<Record<SymbolKinds, boolean>>
  searchTimeoutId,    \* useRef<number | null>(null)
  loading,            \* useState(false)
  overflow,           \* document.body.style.overflow
  timers,             \* timeouts armed by setTimeout that have neither fired nor been cleared
  inflight,           \* multipleQueries calls not yet settled, each with its closure's `cancelled`
  cleanup,            \* the cleanup function the search effect returned on its last run
  nextId,             \* number of request cycles started so far
  lastOp              \* the last event that changed the state (history)

vars == <<showModal, input, results, kind, page, totalPages, symbolKindsToggle,
          searchTimeoutId, loading, overflow, timers, inflight, cleanup,
          nextId, lastOp>>

----------------------------------------------------------------------------
(* Bounds of the model. *)

\* request cycles (runs of the search effect's body) in one behaviour
MaxCycles == 3
\* largest nbPages a sub-response reports
MaxNbPages == 2
\* largest page a settled state starts from
MaxPage == 2

\* values typed into the search field
Inputs == {"", "fetch"}

----------------------------------------------------------------------------
(* Constants of the program. *)

MODULE_INDEX == "modules"
SYMBOL_INDEX == "doc_nodes"
MANUAL_INDEX == "manual"

kinds == <<"All", "Manual", "Modules", "Symbols">>

\* Object.entries(symbolKinds), in insertion order
symbolKinds ==
  << <<"Namespaces", "namespace">>,
     <<"Classes", "class">>,
     <<"Enums", "enum">>,
     <<"Variables", "variable">>,
     <<"Functions", "function">>,
     <<"Interfaces", "interface">>,
     <<"Type Aliases", "typeAlias">> >>

SymbolKinds == {symbolKinds[i][1] : i \in DOMAIN symbolKinds}

\* symbolKinds[k]
SymbolKindTag(k) ==
  LET i == CHOOSE j \in DOMAIN symbolKinds : symbolKinds[j][1] = k
  IN  symbolKinds[i][2]

\* the initial value of symbolKindsToggle; its keys are inserted in this order
InitialToggleKeys ==
  <<"Namespaces", "Classes", "Enums", "Variables", "Functions", "Interfaces",
    "Type Aliases">>

Null == [null |-> TRUE]
Undefined == [undefined |-> TRUE]

HitsPerPageAll == 5
HitsPerPageOne == 10

----------------------------------------------------------------------------
(* JavaScript helpers, as the code uses them. *)

\* a || b on strings: the empty string is falsy
OrElse(a, b) == IF a # "" THEN a ELSE b

\* Array.prototype.join
RECURSIVE Join(_, _)
Join(parts, sep) ==
  IF Len(parts) = 0 THEN ""
  ELSE IF Len(parts) = 1 THEN parts[1]
  ELSE parts[1] \o sep \o Join(Tail(parts), sep)

\* Object.entries(toggle): the keys in insertion order, each with its value
Entries(toggle) ==
  [i \in DOMAIN InitialToggleKeys |->
     <<InitialToggleKeys[i], toggle[InitialToggleKeys[i]]>>]

\* Array.prototype.find with the predicate res.index === index
RECURSIVE FindIndex(_, _)
FindIndex(response, index) ==
  IF Len(response) = 0 THEN Undefined
  ELSE IF response[1].index = index THEN response[1]
  ELSE FindIndex(Tail(response), index)

\* Array.prototype.find with the predicate (res) => res.nbPages (0 is falsy)
RECURSIVE FindNbPages(_)
FindNbPages(response) ==
  IF Len(response) = 0 THEN Undefined
  ELSE IF response[1].nbPages # 0 THEN response[1]
  ELSE FindNbPages(Tail(response))

----------------------------------------------------------------------------
(* The query dispatcher: the queries the search effect builds. *)

\* mutant: the page size of a single category for every category
HitsPerPageSingle(k) == HitsPerPageOne

\* kind === "All" ? 5 : 10
HitsPerPage(k) == IF k = "All" THEN HitsPerPageAll ELSE HitsPerPageOne

\* mutant: the checkboxes filter the kinds in every category
SymbolFiltersCheckedOnly(k, toggle) ==
  LET kept == SelectSeq(Entries(toggle), LAMBDA e : e[2])
      tags == [i \in DOMAIN kept |-> "kind:" \o SymbolKindTag(kept[i][1])]
  IN  Join(tags, " OR ")

\* the filters of the symbol sub-query
SymbolFilters(k, toggle) ==
  LET kept == SelectSeq(Entries(toggle),
                        LAMBDA e : IF k = "Symbols" THEN e[2] ELSE TRUE)
      tags == [i \in DOMAIN kept |-> "kind:" \o SymbolKindTag(kept[i][1])]
  IN  Join(tags, " OR ")

ManualQuery(in, k, p) ==
  [indexName |-> MANUAL_INDEX,
   query |-> OrElse(in, "Introduction"),
   page |-> p,
   hitsPerPage |-> HitsPerPage(k),
   clickAnalytics |-> TRUE,
   filters |-> "kind:paragraph"]

SymbolQuery(in, k, p, toggle) ==
  [indexName |-> SYMBOL_INDEX,
   query |-> OrElse(in, "serve"),
   page |-> p,
   hitsPerPage |-> HitsPerPage(k),
   clickAnalytics |-> TRUE,
   filters |-> SymbolFilters(k, toggle)]

\* mutant: the modules query falls back like the other two
ModuleQueryWithFallback(in, k, p) ==
  [indexName |-> MODULE_INDEX,
   query |-> OrElse(in, "serve"),
   page |-> p,
   hitsPerPage |-> HitsPerPage(k),
   clickAnalytics |-> TRUE]

ModuleQuery(in, k, p) ==
  [indexName |-> MODULE_INDEX,
   query |-> in,
   page |-> p,
   hitsPerPage |-> HitsPerPage(k),
   clickAnalytics |-> TRUE]

\* mutant: the modules query is pushed for category Modules only
BuildQueriesModulesOnly(in, k, p, toggle) ==
  (IF k = "Manual" \/ k = "All" THEN <<ManualQuery(in, k, p)>> ELSE <<>>)
  \o (IF k = "Symbols" \/ k = "All" THEN <<SymbolQuery(in, k, p, toggle)>> ELSE <<>>)
  \o (IF k = "Modules" THEN <<ModuleQuery(in, k, p)>> ELSE <<>>)

\* const queries = []; ... queries.push(...) three times, each under its condition
BuildQueries(in, k, p, toggle) ==
  (IF k = "Manual" \/ k = "All" THEN <<ManualQuery(in, k, p)>> ELSE <<>>)
  \o (IF k = "Symbols" \/ k = "All" THEN <<SymbolQuery(in, k, p, toggle)>> ELSE <<>>)
  \o (IF k = "Modules" \/ k = "All" THEN <<ModuleQuery(in, k, p)>> ELSE <<>>)

----------------------------------------------------------------------------
(* The search service and the result normalizer. *)

\* The batches multipleQueries(queries) may resolve with for cycle id: one
\* sub-response per query, in the order of the queries, echoing the index, page
\* and hitsPerPage asked for, with a queryID of its own (clickAnalytics) and
\* a hit that is a record of that index (the payloads are opaque to the
\* component); the page count each reports is the service's to choose.
Responses(id, queries) ==
  {[i \in DOMAIN queries |->
      [index |-> queries[i].indexName,
       hits |-> <<[objectID |-> <<queries[i].indexName, id>>]>>,
       page |-> queries[i].page,
       hitsPerPage |-> queries[i].hitsPerPage,
       nbPages |-> nb[i],
       queryID |-> <<id, queries[i].indexName>>]] :
     nb \in [DOMAIN queries -> 0..MaxNbPages]}

toSearchResults(response, index) ==
  LET result == FindIndex(response, index)
  IN  IF result # Undefined
      THEN [queryID |-> result.queryID, hits |-> result.hits,
            hitsPerPage |-> result.hitsPerPage, page |-> result.page]
      ELSE Undefined

\* mutant: the largest page count of the batch
TotalPagesOfLargest(response) ==
  LET counts == {response[i].nbPages : i \in DOMAIN response} \cup {0}
      largest == CHOOSE n \in counts : \A m \in counts : m <= n
  IN  IF largest # 0 THEN largest ELSE 1

\* results.find((res) => res.nbPages)?.nbPages ?? 1
TotalPagesOf(response) ==
  LET found == FindNbPages(response)
  IN  IF found # Undefined THEN found.nbPages ELSE 1

\* mutant: a category the batch lacks keeps what the bag held
ResultsOfMerged(response) ==
  LET kept(f, new) == IF new = Undefined /\ results # Null THEN results[f] ELSE new
  IN  [manual |-> kept("manual", toSearchResults(response, MANUAL_INDEX)),
       symbols |-> kept("symbols", toSearchResults(response, SYMBOL_INDEX)),
       modules |-> kept("modules", toSearchResults(response, MODULE_INDEX))]

\* the object handed to setResults
ResultsOf(response) ==
  [manual |-> toSearchResults(response, MANUAL_INDEX),
   symbols |-> toSearchResults(response, SYMBOL_INDEX),
   modules |-> toSearchResults(response, MODULE_INDEX)]

----------------------------------------------------------------------------
(* The effects a re-render runs. Each is written over the state a handler   *)
(* leaves (the primed variables) and the state before it.                  *)

\* mutant: a dependency array without `input`
DepsChangedNoInput ==
  <<showModal', kind', symbolKindsToggle', page'>>
    # <<showModal, kind, symbolKindsToggle, page>>

\* the dependency array [showModal, input, kind, symbolKindsToggle, page] changed
DepsChanged ==
  <<showModal', input', kind', symbolKindsToggle', page'>>
    # <<showModal, input, kind, symbolKindsToggle, page>>

\* mutant: the effect returns no cleanup, so no flag is ever set
RunCleanupLost(calls, c) == calls

\* () => cancelled = true, of the run that returned it
RunCleanup(calls, c) ==
  IF c = Null THEN calls
  ELSE {IF r.id = c.cycle THEN [r EXCEPT !.cancelled = TRUE] ELSE r : r \in calls}

\* mutant: every run of the effect's body arms a timeout
ArmTimeoutAlways(id) ==
  /\ searchTimeoutId' = [timeoutId |-> id]
  /\ timers' = timers \cup {id}

\* the timeout armed by a run of the search effect's body
ArmTimeout(id) ==
  IF searchTimeoutId = Null
  THEN /\ searchTimeoutId' = [timeoutId |-> id]
       /\ timers' = timers \cup {id}
  ELSE UNCHANGED <<searchTimeoutId, timers>>

\* mutant: the effect's body without setLoading(true)
SearchEffectKeepsLoading ==
  IF ~DepsChanged
  THEN UNCHANGED <<loading, searchTimeoutId, timers, inflight, cleanup, nextId>>
  ELSE IF ~showModal'
  THEN /\ inflight' = RunCleanup(inflight, cleanup)
       /\ cleanup' = Null
       /\ UNCHANGED <<loading, searchTimeoutId, timers, nextId>>
  ELSE /\ nextId < MaxCycles
       /\ nextId' = nextId + 1
       /\ UNCHANGED loading
       /\ ArmTimeout(nextId')
       /\ inflight' =
            RunCleanup(inflight, cleanup)
              \cup {[id |-> nextId',
                     queries |-> BuildQueries(input', kind', page', symbolKindsToggle'),
                     cancelled |-> FALSE]}
       /\ cleanup' = [cycle |-> nextId']

\* useEffect(() => {...}, [showModal, input, kind, symbolKindsToggle, page])
SearchEffect ==
  IF ~DepsChanged
  THEN UNCHANGED <<loading, searchTimeoutId, timers, inflight, cleanup, nextId>>
  ELSE IF ~showModal'
  THEN /\ inflight' = RunCleanup(inflight, cleanup)
       /\ cleanup' = Null
       /\ UNCHANGED <<loading, searchTimeoutId, timers, nextId>>
  ELSE /\ nextId < MaxCycles
       /\ nextId' = nextId + 1
       /\ loading' = TRUE
       /\ ArmTimeout(nextId')
       /\ inflight' =
            RunCleanup(inflight, cleanup)
              \cup {[id |-> nextId',
                     queries |-> BuildQueries(input', kind', page', symbolKindsToggle'),
                     cancelled |-> FALSE]}
       /\ cleanup' = [cycle |-> nextId']

\* mutant: closing does not restore the overflow
ScrollLockEffectNoUnlock ==
  IF showModal' = showModal \/ ~showModal'
  THEN UNCHANGED overflow
  ELSE overflow' = "hidden"

\* useEffect(() => {...}, [showModal])
ScrollLockEffect ==
  IF showModal' = showModal
  THEN UNCHANGED overflow
  ELSE overflow' = IF showModal' THEN "hidden" ELSE "initial"

\* lastOp after a user's event: an event that sets no state to a new value
\* causes no re-render and leaves no trace
Record(op) == lastOp' = IF DepsChanged THEN op ELSE lastOp

\* a re-render after a handler that leaves results and totalPages alone
Render ==
  /\ SearchEffect
  /\ ScrollLockEffect
  /\ UNCHANGED <<results, totalPages>>

----------------------------------------------------------------------------
(* What is rendered, and so which handlers a user can reach. *)

\* <dialog open={showModal}>
DialogOpen == showModal

\* mutant: the pagination bar is rendered in every category
PaginationShownInAll == DialogOpen /\ results # Null

\* {kind !== "All" && results && (...)}
PaginationShown == DialogOpen /\ kind # "All" /\ results # Null

\* {kind === "Symbols" && (...)} inside the pagination bar
CheckboxesShown == PaginationShown /\ kind = "Symbols"

\* mutant: the previous-page button is never disabled
PrevDisabledNever == FALSE

\* disabled={page === 0}
PrevDisabled == page = 0

\* mutant: disabled at and past the last page
NextDisabledAtOrPast == (page + 1) >= totalPages

\* disabled={(page + 1) === totalPages}
NextDisabled == (page + 1) = totalPages

----------------------------------------------------------------------------
(* The event handlers. *)

\* Search... button: onClick={() => setShowModal(true)}
ClickSearchButton ==
  /\ showModal' = TRUE
  /\ UNCHANGED <<input, kind, page, symbolKindsToggle>>
  /\ Record([name |-> "ClickSearchButton"])
  /\ Render

\* mutant: closing clears the search text
ClickCloseClearsInput ==
  /\ DialogOpen
  /\ showModal' = FALSE
  /\ input' = ""
  /\ UNCHANGED <<kind, page, symbolKindsToggle>>
  /\ Record([name |-> "ClickClose"])
  /\ Render

\* <dialog onClick={() => setShowModal(false)}> and the close button
ClickClose ==
  /\ DialogOpen
  /\ showModal' = FALSE
  /\ UNCHANGED <<input, kind, page, symbolKindsToggle>>
  /\ Record([name |-> "ClickClose"])
  /\ Render

\* mutant: the Escape test placed after the early return on the target
KeyboardShowModalBodyOnly(key, mod, target) ==
  IF target # "body" THEN showModal
  ELSE IF (mod /\ key = "k") \/ key = "/" THEN TRUE
  ELSE IF key = "Escape" /\ showModal THEN FALSE
  ELSE showModal

\* what keyboardHandler leaves in showModal
KeyboardShowModal(key, mod, target) ==
  LET afterEscape == IF key = "Escape" /\ showModal THEN FALSE ELSE showModal
  IN  IF target # "body" THEN afterEscape
      ELSE IF (mod /\ key = "k") \/ key = "/" THEN TRUE
      ELSE afterEscape

Keys == {"Escape", "k", "/", "a"}
Targets == {"body", "search-input"}

\* globalThis.addEventListener("keydown", keyboardHandler)
keyboardHandler(key, mod, target) ==
  /\ showModal' = KeyboardShowModal(key, mod, target)
  /\ UNCHANGED <<input, kind, page, symbolKindsToggle>>
  /\ Record([name |-> "keyboardHandler"])
  /\ Render

\* onInput={(e) => setInput(e.currentTarget.value)}
OnInput(value) ==
  /\ DialogOpen
  /\ input' = value
  /\ UNCHANGED <<showModal, kind, page, symbolKindsToggle>>
  /\ Record([name |-> "OnInput"])
  /\ Render

\* category button: onClick={() => { setKind(k); setPage(0); }}
ClickKind(k) ==
  /\ DialogOpen
  /\ kind' = k
  /\ page' = 0
  /\ UNCHANGED <<showModal, input, symbolKindsToggle>>
  /\ Record([name |-> "ClickKind", pageBefore |-> page])
  /\ Render

\* previous-page button: onClick={() => setPage((page) => page - 1)}
ClickPrevPage ==
  /\ PaginationShown
  /\ ~PrevDisabled
  /\ page' = page - 1
  /\ UNCHANGED <<showModal, input, kind, symbolKindsToggle>>
  /\ Record([name |-> "ClickPrevPage", pageBefore |-> page])
  /\ Render

\* next-page button: onClick={() => setPage((page) => page + 1)}
ClickNextPage ==
  /\ PaginationShown
  /\ ~NextDisabled
  /\ page' = page + 1
  /\ UNCHANGED <<showModal, input, kind, symbolKindsToggle>>
  /\ Record([name |-> "ClickNextPage", pageBefore |-> page])
  /\ Render

\* the two buttons of the pagination bar
PageButtons == {"previous", "next"}

ClickPageButton(button) ==
  IF button = "previous" THEN ClickPrevPage ELSE ClickNextPage

\* what the checkbox's onChange leaves in page
PageAfterToggle == page

\* checkbox: onChange={() => setSymbolKindsToggle((prev) => ({...prev, [symbolKind]: !prev[symbolKind]}))}
ToggleSymbolKind(symbolKind) ==
  /\ CheckboxesShown
  /\ symbolKindsToggle' =
       [symbolKindsToggle EXCEPT ![symbolKind] = ~symbolKindsToggle[symbolKind]]
  /\ page' = PageAfterToggle
  /\ UNCHANGED <<showModal, input, kind>>
  /\ Record([name |-> "ToggleSymbolKind", pageBefore |-> page])
  /\ Render

----------------------------------------------------------------------------
(* The event loop's other callbacks. *)

\* what the resolution handler does with a response when `cancelled` is false
Commit(response) ==
  /\ IF searchTimeoutId # Null
     THEN /\ timers' = timers \ {searchTimeoutId.timeoutId}
          /\ searchTimeoutId' = Null
     ELSE UNCHANGED <<timers, searchTimeoutId>>
  /\ totalPages' = TotalPagesOf(response)
  /\ results' = ResultsOf(response)
  /\ loading' = FALSE

\* mutant: a resolution handler that does not test `cancelled`
ResolveIgnoresCancelled(r, response) ==
  /\ r \in inflight
  /\ inflight' = inflight \ {r}
  /\ Commit(response)
  /\ lastOp' = [name |-> "Resolve", id |-> r.id, cancelled |-> r.cancelled,
                response |-> IF r.cancelled THEN <<>> ELSE response]
  /\ UNCHANGED <<showModal, input, kind, page, symbolKindsToggle, overflow,
                 cleanup, nextId>>

\* client.multipleQueries(queries).then(({ results }) => {...})
Resolve(r, response) ==
  /\ r \in inflight
  /\ inflight' = inflight \ {r}
  /\ IF r.cancelled
     THEN UNCHANGED <<timers, searchTimeoutId, totalPages, results, loading>>
     ELSE Commit(response)
  /\ lastOp' = [name |-> "Resolve", id |-> r.id, cancelled |-> r.cancelled,
                response |-> IF r.cancelled THEN <<>> ELSE response]
  /\ UNCHANGED <<showModal, input, kind, page, symbolKindsToggle, overflow,
                 cleanup, nextId>>

\* The responses that tell the outcomes of resolving call r apart: a call whose
\* `cancelled` is set returns before it reads the response, so one stands for all.
Heard(r) ==
  IF r.cancelled
  THEN {CHOOSE response \in Responses(r.id, r.queries) : TRUE}
  ELSE Responses(r.id, r.queries)

\* mutant: a rejection handler that ends the loading state
RejectHandled(r) ==
  /\ r \in inflight
  /\ inflight' = inflight \ {r}
  /\ loading' = IF r.cancelled THEN loading ELSE FALSE
  /\ lastOp' = [name |-> "Reject", id |-> r.id, cancelled |-> r.cancelled]
  /\ UNCHANGED <<showModal, input, kind, page, symbolKindsToggle, overflow,
                 cleanup, nextId, timers, searchTimeoutId, totalPages, results>>

\* the promise rejects: then() has no rejection handler
Reject(r) ==
  /\ r \in inflight
  /\ inflight' = inflight \ {r}
  /\ lastOp' = [name |-> "Reject", id |-> r.id, cancelled |-> r.cancelled]
  /\ UNCHANGED <<showModal, input, kind, page, symbolKindsToggle, overflow,
                 cleanup, nextId, timers, searchTimeoutId, totalPages, results,
                 loading>>

\* mutant: the timeout also ends the loading state
TimeoutFiresStopsLoading(id) ==
  /\ id \in timers
  /\ timers' = timers \ {id}
  /\ results' = Null
  /\ loading' = FALSE
  /\ lastOp' = [name |-> "TimeoutFires"]
  /\ UNCHANGED <<showModal, input, kind, page, symbolKindsToggle, overflow,
                 cleanup, nextId, searchTimeoutId, totalPages, inflight>>

\* mutant: the timeout also gives up the call in flight
TimeoutFiresCancels(id) ==
  /\ id \in timers
  /\ timers' = timers \ {id}
  /\ results' = Null
  /\ inflight' = {[r EXCEPT !.cancelled = TRUE] : r \in inflight}
  /\ lastOp' = [name |-> "TimeoutFires"]
  /\ UNCHANGED <<showModal, input, kind, page, symbolKindsToggle, overflow,
                 cleanup, nextId, searchTimeoutId, totalPages, loading>>

\* setTimeout(() => setResults(null), 500) fires
TimeoutFires(id) ==
  /\ id \in timers
  /\ timers' = timers \ {id}
  /\ results' = Null
  /\ lastOp' = [name |-> "TimeoutFires"]
  /\ UNCHANGED <<showModal, input, kind, page, symbolKindsToggle, overflow,
                 cleanup, nextId, searchTimeoutId, totalPages, loading, inflight>>

----------------------------------------------------------------------------
(* The component after it is mounted: every effect has run once, closed. *)

Init ==
  /\ showModal = FALSE
  /\ input = ""
  /\ results = Null
  /\ kind = "All"
  /\ page = 0
  /\ totalPages = 1
  /\ symbolKindsToggle = [k \in SymbolKinds |-> TRUE]
  /\ searchTimeoutId = Null
  /\ loading = FALSE
  /\ overflow = "initial"
  /\ timers = {}
  /\ inflight = {}
  /\ cleanup = Null
  /\ nextId = 0
  /\ lastOp = [name |-> "mount"]

\* the events a user causes
UserEvent ==
  \/ ClickSearchButton
  \/ ClickClose
  \/ \E key \in Keys, mod \in BOOLEAN, target \in Targets :
       keyboardHandler(key, mod, target)
  \/ \E value \in Inputs : OnInput(value)
  \/ \E i \in DOMAIN kinds : ClickKind(kinds[i])
  \/ \E button \in PageButtons : ClickPageButton(button)
  \/ \E symbolKind \in SymbolKinds : ToggleSymbolKind(symbolKind)

Next ==
  \/ UserEvent
  \/ \E r \in inflight : \E response \in Heard(r) : Resolve(r, response)
  \/ \E r \in inflight : Reject(r)
  \/ \E id \in timers : TimeoutFires(id)

Spec == Init /\ [][Next]_vars

----------------------------------------------------------------------------
(* One user event from any settled state. The query state persists for as  *)
(* long as the component is mounted, so the component can be settled (no   *)
(* call in flight, no timeout pending, the last cycle committed) with any  *)
(* text, category, page and toggles, open or closed after that commit. In  *)
(* category All the page is 0: only ClickKind selects All, and the page    *)
(* buttons are not rendered there.                                         *)

SettledInit ==
  \E open \in BOOLEAN, in \in Inputs, i \in DOMAIN kinds, p \in 0..MaxPage,
     toggle \in [SymbolKinds -> BOOLEAN] :
    \E response \in Responses(0, BuildQueries(in, kinds[i], p, toggle)) :
      /\ kinds[i] = "All" => p = 0
      /\ showModal = open
      /\ input = in
      /\ results = ResultsOf(response)
      /\ kind = kinds[i]
      /\ page = p
      /\ totalPages = TotalPagesOf(response)
      /\ symbolKindsToggle = toggle
      /\ searchTimeoutId = Null
      /\ loading = FALSE
      /\ overflow = IF open THEN "hidden" ELSE "initial"
      /\ timers = {}
      /\ inflight = {}
      /\ cleanup = IF open THEN [cycle |-> 0] ELSE Null
      /\ nextId = 0
      /\ lastOp = [name |-> "settled"]

\* no cycle has started since the settled state
NoneSince == nextId = 0

SettledNext ==
  \/ NoneSince /\ ClickSearchButton
  \/ NoneSince /\ ClickClose
  \/ NoneSince /\ \E key \in Keys, mod \in BOOLEAN, target \in Targets :
                    keyboardHandler(key, mod, target)
  \/ NoneSince /\ \E value \in Inputs : OnInput(value)
  \/ NoneSince /\ \E i \in DOMAIN kinds : ClickKind(kinds[i])
  \/ NoneSince /\ ClickPrevPage
  \/ NoneSince /\ ClickNextPage
  \/ NoneSince /\ \E symbolKind \in SymbolKinds : ToggleSymbolKind(symbolKind)

SettledSpec == SettledInit /\ [][SettledNext]_vars

----------------------------------------------------------------------------
(* Vocabulary of the properties. *)

\* the calls in flight whose resolution would still be committed
Current == {r \in inflight : ~r.cancelled}

\* the cycles whose sub-responses a result bag holds
BagCycles(bag) ==
  {bag[f].queryID[1] : f \in {g \in DOMAIN bag : bag[g] # Undefined}}

\* the last event was a response that was committed
Committed == lastOp.name = "Resolve" /\ ~lastOp.cancelled

\* the index names of a list of queries
IndexNames(queries) == [i \in DOMAIN queries |-> queries[i].indexName]

----------------------------------------------------------------------------
(* C1. Staleness guard. Once a later cycle has started (or the overlay has *)
(* closed), every earlier call still in flight has its `cancelled` set; a  *)
(* call whose `cancelled` is set leaves results, totalPages, loading and   *)
(* the timeout alone when it settles; and the call of the latest cycle,    *)
(* when it resolves, leaves exactly its own bag in results. So when cycle  *)
(* A starts before B and resolves after it, results stay B's.              *)
C1_StalenessGuard ==
  [][ /\ \A r \in inflight' : r.id # nextId' => r.cancelled
      /\ \A r \in inflight :
           inflight' = inflight \ {r} =>
             IF r.cancelled
             THEN UNCHANGED <<results, totalPages, loading, searchTimeoutId, timers>>
             ELSE lastOp'.name = "Resolve" =>
                    /\ r.id = nextId
                    /\ BagCycles(results') = {r.id}
                    /\ loading' = FALSE ]_vars

\* cycle A resolved last, after a later cycle B was committed, and the bag is B's
C1_Witness ==
  /\ lastOp.name = "Resolve"
  /\ lastOp.cancelled
  /\ results # Null
  /\ loading = FALSE
  /\ \E b \in 1..nextId : b > lastOp.id /\ BagCycles(results) = {b}

----------------------------------------------------------------------------
(* C2. After the category handler or a symbol-kind checkbox handler has    *)
(* changed the state, page is 0, whatever it was before.                   *)
C2_PageResetByKindAndToggle ==
  lastOp.name \in {"ClickKind", "ToggleSymbolKind"} => page = 0

\* the half of C2 the category buttons keep: a category click leaves page 0
C2_PageResetByKind ==
  lastOp.name = "ClickKind" => page = 0

----------------------------------------------------------------------------
(* C3. The call of the current cycle carries at least 1 and at most 3      *)
(* sub-queries: manual, doc_nodes and modules, in that order, in category  *)
(* All, and the one query against the category's index otherwise.          *)
C3_SubQueryCount ==
  \A r \in Current :
    /\ Len(r.queries) >= 1
    /\ Len(r.queries) <= 3
    /\ kind = "All" => IndexNames(r.queries) = <<"manual", "doc_nodes", "modules">>
    /\ kind = "Manual" => IndexNames(r.queries) = <<"manual">>
    /\ kind = "Symbols" => IndexNames(r.queries) = <<"doc_nodes">>
    /\ kind = "Modules" => IndexNames(r.queries) = <<"modules">>

\* a cycle of category All is in flight with its three sub-queries
C3_Witness ==
  \E r \in Current : kind = "All" /\ Len(r.queries) = 3

----------------------------------------------------------------------------
(* C4. The filters of the symbol sub-query are the " OR "-join of          *)
(* "kind:<tag>" over the included kinds, in the order of symbolKinds: the  *)
(* checked kinds in category Symbols, every kind in category All.          *)

\* the kinds the claim includes
IncludedKinds ==
  IF kind = "Symbols" THEN {k \in SymbolKinds : symbolKindsToggle[k]}
  ELSE SymbolKinds

\* "kind:<tag>" of the first n kinds of symbolKinds that are included, joined
ExpectedFilters(included) ==
  LET tagOf == [i \in 1..7 |->
                  <<"namespace", "class", "enum", "variable", "function",
                    "interface", "typeAlias">>[i]]
      nameOf == [i \in 1..7 |->
                  <<"Namespaces", "Classes", "Enums", "Variables", "Functions",
                    "Interfaces", "Type Aliases">>[i]]
      F[n \in 0..7] ==
        IF n = 0 THEN ""
        ELSE IF nameOf[n] \notin included THEN F[n - 1]
        ELSE IF F[n - 1] = "" THEN "kind:" \o tagOf[n]
        ELSE F[n - 1] \o " OR kind:" \o tagOf[n]
  IN  F[7]

\* C4: the symbol sub-query's filters are the OR-join over the included kinds
C4_SymbolFilters ==
  \A r \in Current :
    \A i \in DOMAIN r.queries :
      r.queries[i].indexName = "doc_nodes" =>
        /\ r.queries[i].filters = ExpectedFilters(IncludedKinds)
        /\ (kind = "Symbols" /\ \A k \in SymbolKinds : ~symbolKindsToggle[k])
             => r.queries[i].filters = ""
        /\ (kind = "Symbols" /\ \A k \in SymbolKinds :
                                  symbolKindsToggle[k] <=> k = "Functions")
             => r.queries[i].filters = "kind:function"
        /\ kind = "All" =>
             r.queries[i].filters =
               "kind:namespace OR kind:class OR kind:enum OR kind:variable OR kind:function OR kind:interface OR kind:typeAlias"

\* a Symbols cycle is in flight with every checkbox unchecked: empty filters
C4_Witness ==
  \E r \in Current :
    /\ kind = "Symbols"
    /\ \A k \in SymbolKinds : ~symbolKindsToggle[k]
    /\ r.queries[1].filters = ""

----------------------------------------------------------------------------
(* C5. With an empty input the manual sub-query asks for "Introduction"    *)
(* and the symbol sub-query for "serve", the modules sub-query for the     *)
(* empty string; with a non-empty input every sub-query asks for it.       *)
C5_QueryText ==
  \A r \in Current :
    \A i \in DOMAIN r.queries :
      LET q == r.queries[i]
      IN  /\ input # "" => q.query = input
          /\ input = "" =>
               /\ q.indexName = "manual" => q.query = "Introduction"
               /\ q.indexName = "doc_nodes" => q.query = "serve"
               /\ q.indexName = "modules" => q.query = ""

\* the three sub-queries of an empty input are in flight
C5_Witness ==
  \E r \in Current :
    /\ input = ""
    /\ Len(r.queries) = 3
    /\ r.queries[1].query = "Introduction"
    /\ r.queries[3].query = ""

----------------------------------------------------------------------------
(* C6. Every sub-query of the current cycle carries the page of the state  *)
(* and asks for 5 hits per page in category All, 10 in any other.          *)
C6_PageAndHitsPerPage ==
  \A r \in Current :
    \A i \in DOMAIN r.queries :
      /\ r.queries[i].page = page
      /\ r.queries[i].hitsPerPage = IF kind = "All" THEN 5 ELSE 10

\* a Symbols cycle for page 2 is in flight
C6_Witness ==
  \E r \in Current :
    /\ kind = "Symbols"
    /\ page = 2
    /\ r.queries[1].page = 2
    /\ r.queries[1].hitsPerPage = 10

----------------------------------------------------------------------------
(* C7. What a committed response leaves in totalPages. *)

\* the page counts a batch reports, in the order of its sub-responses
NbPages(response) == [i \in DOMAIN response |-> response[i].nbPages]

\* the sub-responses that report a page count (0 reports none)
Reporting(response) == {i \in DOMAIN response : response[i].nbPages # 0}

\* the largest page count reported, or 1 if none is
MaxReportedOrOne(response) ==
  IF Reporting(response) = {} THEN 1
  ELSE CHOOSE n \in {response[i].nbPages : i \in Reporting(response)} :
         \A i \in Reporting(response) : response[i].nbPages <= n

\* the page count of the first sub-response that reports one, or 1 if none does
FirstReportedOrOne(response) ==
  IF Reporting(response) = {} THEN 1
  ELSE LET first == CHOOSE i \in Reporting(response) :
                      \A j \in Reporting(response) : i <= j
       IN  response[first].nbPages

(* C7 as stated: a committed response sets totalPages to the maximum page  *)
(* count reported across the sub-responses of its batch, or to 1 if none   *)
(* reports one.                                                            *)
C7_TotalPagesIsMaximum ==
  Committed => totalPages = MaxReportedOrOne(lastOp.response)

(* C7 as amended: a committed response sets totalPages to the page count of *)
(* the first sub-response, in the order of the batch, that reports a        *)
(* non-zero page count, or to 1 if none does.                               *)
C7_TotalPagesIsFirstReported ==
  Committed => totalPages = FirstReportedOrOne(lastOp.response)

\* a batch was committed whose first report (1) is not its largest (2)
C7_Witness ==
  /\ Committed
  /\ Len(lastOp.response) = 3
  /\ NbPages(lastOp.response) = <<0, 1, 2>>
  /\ totalPages = 1

----------------------------------------------------------------------------
(* C8. A committed response replaces the result bag wholesale: results has *)
(* the three fields manual, symbols and modules and no other; each is      *)
(* present iff the batch has a sub-response of that index, which is iff    *)
(* the category asks for that index, and then holds that sub-response's    *)
(* queryID, hits, hitsPerPage and page; nothing of an earlier cycle stays. *)

\* the field of the bag that holds index ix, and the categories that query it
FieldOf(ix) ==
  IF ix = "manual" THEN "manual" ELSE IF ix = "doc_nodes" THEN "symbols" ELSE "modules"

KindOf(ix) ==
  IF ix = "manual" THEN "Manual" ELSE IF ix = "doc_nodes" THEN "Symbols" ELSE "Modules"

\* C8: after a commit the bag is the normalized batch and nothing else
C8_WholesaleReplacement ==
  Committed =>
    /\ DOMAIN results = {"manual", "symbols", "modules"}
    /\ \A ix \in {"manual", "doc_nodes", "modules"} :
         LET entries == {i \in DOMAIN lastOp.response : lastOp.response[i].index = ix}
             field == results[FieldOf(ix)]
         IN  /\ (field # Undefined) <=> (entries # {})
             /\ (field # Undefined) <=> (kind \in {"All", KindOf(ix)})
             /\ \A i \in entries :
                  /\ field.queryID = lastOp.response[i].queryID
                  /\ field.hits = lastOp.response[i].hits
                  /\ field.hitsPerPage = lastOp.response[i].hitsPerPage
                  /\ field.page = lastOp.response[i].page
                  /\ DOMAIN field = {"queryID", "hits", "hitsPerPage", "page"}
    /\ BagCycles(results) = {lastOp.id}

\* a later cycle of category Manual was committed: symbols and modules are absent
C8_Witness ==
  /\ Committed
  /\ lastOp.id >= 2
  /\ kind = "Manual"
  /\ results.manual # Undefined
  /\ results.symbols = Undefined
  /\ results.modules = Undefined

----------------------------------------------------------------------------
(* C9. While the pagination bar is shown, the previous-page button can be  *)
(* clicked iff page # 0 and the next-page button iff page + 1 # totalPages; *)
(* a click that took effect moved page by exactly -1 or +1.                *)
C9_PaginationControls ==
  /\ PaginationShown =>
       /\ (ENABLED ClickPrevPage) <=> page # 0
       /\ (ENABLED ClickNextPage) <=> page + 1 # totalPages
  /\ lastOp.name = "ClickPrevPage" =>
       /\ lastOp.pageBefore # 0
       /\ page = lastOp.pageBefore - 1
  /\ lastOp.name = "ClickNextPage" =>
       /\ lastOp.pageBefore + 1 # totalPages
       /\ page = lastOp.pageBefore + 1

\* the previous-page button took page from 1 to 0, where it is disabled
C9_Witness ==
  /\ PaginationShown
  /\ lastOp.name = "ClickPrevPage"
  /\ lastOp.pageBefore = 1
  /\ page = 0
  /\ ~ENABLED ClickPrevPage

----------------------------------------------------------------------------
(* C10. Background scrolling is locked exactly while the overlay is open:  *)
(* body overflow is "hidden" after every event that leaves it open and     *)
(* "initial" after every event that leaves it closed, however many times   *)
(* it was opened and closed and whether or not the event changed the flag. *)
C10_ScrollLockTracksOpen ==
  overflow = IF showModal THEN "hidden" ELSE "initial"

\* the overlay was opened again after an earlier open and close
C10_Witness ==
  /\ lastOp.name \in {"ClickSearchButton", "keyboardHandler"}
  /\ showModal
  /\ nextId >= 2
  /\ overflow = "hidden"

----------------------------------------------------------------------------
(* C11. A rejected call is not handled. The rejection commits nothing: it  *)
(* leaves results, totalPages, loading and the timeout as they were. When  *)
(* the rejected call is the one of the latest cycle, loading is true and   *)
(* no call is left that could end it: as long as no new cycle starts,      *)
(* loading stays true, and results are null or the timeout that sets them  *)
(* to null is still pending, and once null they stay null.                 *)

\* loading, and no call in flight whose resolution would be committed
Failed == loading /\ Current = {}

C11_RejectionUnhandled ==
  [][ /\ (lastOp'.name = "Reject" /\ inflight' # inflight) =>
           /\ UNCHANGED <<results, totalPages, loading, searchTimeoutId, timers>>
           /\ ~lastOp'.cancelled => Failed'
      /\ (Failed /\ nextId' = nextId) =>
           /\ Failed'
           /\ results = Null => results' = Null
      /\ Failed' => (results' = Null \/ timers' # {}) ]_vars

\* the call of the open overlay was rejected, the timeout has fired: loading, no results
C11_Witness ==
  /\ lastOp.name = "Reject"
  /\ ~lastOp.cancelled
  /\ showModal
  /\ loading
  /\ results = Null
  /\ timers = {}
  /\ inflight = {}

----------------------------------------------------------------------------
(* C12. A keydown of Escape leaves the overlay closed whatever element has *)
(* the focus; Ctrl+K, Cmd+K or "/" leaves it open when the event target is *)
(* the document body; any other key, and an open shortcut whose target is  *)
(* not the body, leaves the open flag as it was. No keydown does anything  *)
(* else to the flag.                                                       *)

OpenShortcut(key, mod) == (mod /\ key = "k") \/ key = "/"

C12_KeyboardHandling ==
  \A key \in Keys, mod \in BOOLEAN, target \in Targets :
    LET expected == IF key = "Escape" THEN FALSE
                    ELSE IF OpenShortcut(key, mod) /\ target = "body" THEN TRUE
                    ELSE showModal
    IN  ~ENABLED (keyboardHandler(key, mod, target) /\ showModal' # expected)

\* Escape has closed the overlay while the focus was in the search input
C12_Witness ==
  /\ lastOp.name = "keyboardHandler"
  /\ ~showModal
  /\ cleanup = Null
  /\ nextId >= 1

----------------------------------------------------------------------------
(* C13. The query state persists across closing and reopening: a step that *)
(* closes the overlay or opens it, and every step taken while it is closed,*)
(* leaves the free text, the category, the page and the symbol-kind        *)
(* toggles exactly as they were.                                           *)

C13_QueryStatePersists ==
  [][ (showModal' # showModal \/ (~showModal /\ ~showModal')) =>
        UNCHANGED <<input, kind, page, symbolKindsToggle>> ]_vars

\* reopened after a close, with the text typed and the category chosen before the close
C13_Witness ==
  /\ lastOp.name \in {"ClickSearchButton", "keyboardHandler"}
  /\ showModal
  /\ nextId >= 3
  /\ (input # "" \/ kind # "All" \/ \E k \in DOMAIN symbolKindsToggle : ~symbolKindsToggle[k])

----------------------------------------------------------------------------
(* The program under the scheduling its callbacks are given: a call that   *)
(* is going to resolve does resolve, and its then() handler runs; a        *)
(* timeout that is pending fires.                                          *)

\* the call of the latest cycle resolves
ResolveCurrent == \E r \in Current : \E response \in Heard(r) : Resolve(r, response)

\* the pending timeout fires
TimeoutDue == \E id \in timers : TimeoutFires(id)

FairSpec == Init /\ [][Next]_vars /\ WF_vars(ResolveCurrent) /\ WF_vars(TimeoutDue)

----------------------------------------------------------------------------
(* C14. The call of the latest cycle, while it is in flight, leads to its  *)
(* own bag being committed (results non-null and of that cycle, loading    *)
(* false), unless a later cycle starts, the overlay closes or the call is  *)
(* rejected before that; the timeout firing first does not prevent it.     *)
C14_CurrentCycleCommits ==
  \A id \in 1..MaxCycles :
    (\E r \in Current : r.id = id) ~>
      \/ results # Null /\ BagCycles(results) = {id} /\ ~loading
      \/ nextId > id
      \/ ~showModal
      \/ lastOp.name = "Reject" /\ lastOp.id = id

\* the timeout has fired and left no results, the call of the latest cycle is still in flight
C14_Witness ==
  /\ showModal
  /\ loading
  /\ results = Null
  /\ timers = {}
  /\ searchTimeoutId # Null
  /\ \E r \in Current : r.id = nextId
  /\ nextId >= 2

----------------------------------------------------------------------------
(* C15. The page is inside the known page range: page < totalPages in      *)
(* every reachable state.                                                  *)
C15_PageBelowTotalPages == page < totalPages

----------------------------------------------------------------------------
(* C16. page is a non-negative integer in every reachable state: no click  *)
(* on the previous-page button, and no other event, takes it below 0.      *)
C16_PageNonNegative == page \in Nat

\* the previous-page button was clicked on the second page and left the first
C16_Witness ==
  /\ lastOp.name = "ClickPrevPage"
  /\ lastOp.pageBefore = 1
  /\ page = 0
  /\ PrevDisabled

----------------------------------------------------------------------------
(* C17. Every step that changes the free text, the category, the toggles   *)
(* or the page while the overlay is open, and every step that opens the    *)
(* overlay, issues exactly one multipleQueries call, which carries all the *)
(* sub-queries built for the new state (three for All, one otherwise); a   *)
(* step that closes the overlay, and a step taken while it is closed,      *)
(* issues none. Each call is the one call of a new cycle.                  *)
C17_OneCallPerCycle ==
  [][ LET started == {r \in inflight' : \A q \in inflight : q.id # r.id}
          changed == <<input', kind', symbolKindsToggle', page'>>
                       # <<input, kind, symbolKindsToggle, page>>
          cycle   == showModal' /\ (changed \/ ~showModal)
      IN  /\ Cardinality(started) = IF cycle THEN 1 ELSE 0
          /\ nextId' = nextId + Cardinality(started)
          /\ \A r \in started :
               /\ r.id = nextId'
               /\ ~r.cancelled
               /\ r.queries = BuildQueries(input', kind', page', symbolKindsToggle')
               /\ Len(r.queries) = IF kind' = "All" THEN 3 ELSE 1 ]_vars

\* typing started the second call while the first was still in flight
C17_Witness ==
  /\ lastOp.name = "OnInput"
  /\ nextId = 2
  /\ Cardinality(inflight) = 2
  /\ \E r \in Current : r.id = 2 /\ Len(r.queries) = 3 /\ r.queries[1].query = input

----------------------------------------------------------------------------
(* C18. The timeout, when it fires, sets results to null and changes       *)
(* nothing else: not loading, not the query state, not totalPages, not the *)
(* ref that holds its id, and no call in flight nor its `cancelled` flag.  *)
(* So the call of the latest cycle is as committable after it as before:   *)
(* when it resolves after the timeout has fired, its bag replaces the null *)
(* and loading ends.                                                       *)

\* the timeout has fired and nothing has been committed since
TimeoutFired == searchTimeoutId # Null /\ timers = {}

C18_TimeoutClearsResultsOnly ==
  [][ /\ (lastOp'.name = "TimeoutFires" /\ timers' # timers) =>
           /\ results' = Null
           /\ UNCHANGED <<showModal, input, kind, page, symbolKindsToggle,
                          totalPages, loading, searchTimeoutId, inflight,
                          cleanup, nextId, overflow>>
      /\ \A r \in Current :
           (TimeoutFired /\ inflight' = inflight \ {r} /\ lastOp'.name = "Resolve") =>
             /\ results' # Null
             /\ BagCycles(results') = {r.id}
             /\ loading' = FALSE ]_vars

\* the timeout has just fired while two calls are in flight, the earlier one superseded
C18_Witness ==
  /\ lastOp.name = "TimeoutFires"
  /\ TimeoutFired
  /\ results = Null
  /\ loading
  /\ showModal
  /\ Cardinality(inflight) = 2
  /\ Cardinality(Current) = 1

----------------------------------------------------------------------------
(* C19. At most one timeout is pending at any time, it is the one whose id *)
(* the ref holds, and loading is true while it is pending. A pending       *)
(* timeout goes away only by firing or by the commit of a response that is *)
(* not stale; a step that starts a superseding cycle or closes the overlay *)
(* leaves it pending and arms no other. So it can fire under a cycle that  *)
(* started after it was armed, and while the overlay is closed.            *)
C19_SingleTimeout ==
  /\ [](/\ Cardinality(timers) <= 1
        /\ timers # {} => (loading /\ searchTimeoutId # Null
                             /\ timers = {searchTimeoutId.timeoutId}))
  /\ [][ /\ (timers # {} /\ timers' # timers) =>
              /\ timers' = {}
              /\ \/ lastOp'.name = "TimeoutFires" /\ UNCHANGED searchTimeoutId
                 \/ /\ lastOp'.name = "Resolve"
                    /\ ~lastOp'.cancelled
                    /\ searchTimeoutId' = Null
         /\ (timers # {} /\ (nextId' # nextId \/ showModal' # showModal)) =>
              UNCHANGED <<timers, searchTimeoutId>>
         /\ (timers = {} /\ timers' # {}) =>
              (searchTimeoutId = Null /\ nextId' = nextId + 1
                 /\ timers' = {nextId'}) ]_vars

\* the timeout has fired under a cycle that started after it was armed
C19_Witness ==
  /\ lastOp.name = "TimeoutFires"
  /\ searchTimeoutId # Null
  /\ searchTimeoutId.timeoutId < nextId

----------------------------------------------------------------------------
----------------------------------------------------------------------------
(* C21. Closing the overlay supersedes the call in flight: the closing     *)
(* step sets the `cancelled` flag of every call in flight and, when the    *)
(* call of the latest cycle is among them, leaves loading true; so while   *)
(* the overlay is closed no call is uncancelled; a                         *)
(* response that arrives while it is closed is dropped (results,           *)
(* totalPages, loading and the timeout unchanged by it), and loading does  *)
(* not change while closed. When a response is committed, the overlay is   *)
(* open and the call is the one of the latest cycle, so after a reopen it  *)
(* is the call issued by the reopening or a later one.                     *)
C21_CloseSupersedes ==
  /\ [](/\ ~showModal => Current = {}
        /\ Current # {} => loading)
  /\ [][ /\ (showModal /\ ~showModal') =>
              /\ inflight' = {[r EXCEPT !.cancelled = TRUE] : r \in inflight}
              /\ UNCHANGED <<results, totalPages, loading, searchTimeoutId,
                             timers, nextId>>
              /\ Current # {} => loading'
         /\ (~showModal /\ ~showModal') => UNCHANGED <<loading, totalPages>>
         /\ (~showModal /\ lastOp'.name = "Resolve" /\ inflight' # inflight) =>
              /\ lastOp'.cancelled
              /\ UNCHANGED <<results, totalPages, loading, searchTimeoutId, timers>>
         /\ (lastOp'.name = "Resolve" /\ inflight' # inflight /\ ~lastOp'.cancelled) =>
              /\ showModal
              /\ lastOp'.id = nextId
              /\ \A r \in inflight : r.id <= lastOp'.id ]_vars

\* closed with the call still in flight; its response has arrived and was dropped
C21_Witness ==
  /\ ~showModal
  /\ lastOp.name = "Resolve"
  /\ lastOp.cancelled
  /\ loading
  /\ inflight = {}
  /\ nextId = 1

----------------------------------------------------------------------------
====
